---- MODULE Spec2Model ----
(***************************************************************************)
(* Model of the network monitor's background engine:                       *)
(*   - electron/main.ts: the monitor loop (sampling + alert logic), the    *)
(*     update-settings / set-paused / kill-process / get-ip-locations      *)
(*     IPC handlers;                                                       *)
(*   - src/hooks/useSettings.ts: the renderer's settings store;            *)
(*   - src/hooks/useGeoLocation.ts: the renderer's geo cache.              *)
(* Time is Date.now() in milliseconds, observed on a grid of instants.     *)
(***************************************************************************)
EXTENDS Integers, Sequences, FiniteSets, TLC

----------------------------------------------------------------------------
(* Program constants *)

MiB == 1024 * 1024
MsPerMinute == 60 * 1000
TickInterval == 1000

(* Bounds of the model *)

MaxMinutes == 2

StartTime == 10 * MsPerMinute

\* The instants at which the clock is observed: every minute mark after
\* start-up and one tick interval after it.  Two neighbouring instants are
\* at least TickInterval apart.
Instants ==
    { StartTime + m * MsPerMinute + e * TickInterval : m \in 0..MaxMinutes, e \in {0, 1} }

Fields == {"threshold", "cooldownMinutes", "pauseMinutes"}

defaultSettings ==
    [threshold |-> 5 * MiB, cooldownMinutes |-> 5, pauseMinutes |-> 5]

\* Values an update-settings payload may carry in each field.
FieldVals ==
    [threshold |-> {0, 3 * MiB}, cooldownMinutes |-> {1}, pauseMinutes |-> {1}]

AllFieldVals == UNION { FieldVals[f] : f \in Fields }

\* Payloads of update-settings: null, or an object carrying any subset of
\* the fields.
Payloads ==
    { [present |-> FALSE, fields |-> <<>>] } \cup
    { [present |-> TRUE, fields |-> g] :
        g \in UNION { { h \in [D -> AllFieldVals] : \A f \in D : h[f] \in FieldVals[f] } :
                      D \in SUBSET Fields } }

\* Durations carried by set-paused.
Durations == {0, MsPerMinute}

\* Interface readings returned by si.networkStats().
Rates == {0, 3 * MiB}
IfaceNames == <<"eth0", "wlan0">>
IfaceReadings(n) ==
    [iface : {IfaceNames[n]}, operstate : {"up", "down"}, rx_sec : Rates, tx_sec : Rates]
NetworkStatsInputs ==
    UNION { { s \in [1..n -> UNION { IfaceReadings(k) : k \in 1..Len(IfaceNames) }] :
                \A k \in 1..n : s[k] \in IfaceReadings(k) } : n \in 0..Len(IfaceNames) }

----------------------------------------------------------------------------
(* State *)

VARIABLES
    now,                \* Date.now()
    started,            \* app.whenReady() has resolved
    win,                \* main window: "none", "open", "destroyed"
    overlayWin,         \* overlay window: TRUE when open (non-null)
    isMonitoring,
    platform,           \* process.platform: "darwin" or "other"; "unknown" until first read
    pc,                 \* position of monitorLoop: "idle", "reading", "scheduled";
                        \* "quit" once the process has exited
    monitoringTimeout,  \* due time of the pending setTimeout, 0 for none
    lastAlertTime,
    pauseAlertsUntil,
    currentSettings,
    out,                \* what the tick completed at the current instant produced
    settingsChanged,    \* history: settings were modified since the last alert
    lastPause,          \* history: the standing set-paused(d > 0), if no command followed it
    resumedEarly        \* history: set-paused(0) ended a pause and no command followed it

engineVars ==
    <<now, started, platform, win, overlayWin, isMonitoring, pc, monitoringTimeout,
      lastAlertTime, pauseAlertsUntil, currentSettings, out, settingsChanged, lastPause,
      resumedEarly>>

VARIABLES
    osKills,            \* history: the calls of the OS kill primitive, [pid, channel]
    killPending,        \* kills whose callback has not run yet
    killReply           \* the last reply of a kill handler

killVars == <<osKills, killPending, killReply>>

VARIABLES
    GLOBAL_IP_CACHE,    \* ip -> "loc", "locNoIsp" or "null" when cached, "none" when not
    mounted,            \* a component using useGeoLocation is mounted
    ips,                \* the ips argument of the mounted hook
    hookGen,            \* number of hook instances created so far
    pendingRequests,    \* the mounted instance's pendingRequests.current
    locations,          \* the mounted instance's locations state (its keys)
    requests,           \* getIpLocations invocations not yet answered to the renderer
    lookups,            \* history: ip -> number of geoip.lookup(ip) calls
    failedIps           \* history: addresses of batches whose invocation failed

geoVars ==
    <<GLOBAL_IP_CACHE, mounted, ips, hookGen, pendingRequests, locations, requests, lookups,
      failedIps>>

VARIABLES
    rendererStarted,    \* useSettings has been initialised
    uiSettings,         \* useSettings: settings
    isModalOpen,
    draft,              \* useSettings: draft, thresholdMb in tenths of a MiB
    saved               \* history: saveSettings has run

uiVars == <<rendererStarted, uiSettings, isModalOpen, draft, saved>>

VARIABLES
    listening,          \* useTrafficStats of the main window has registered its listener
    trafficInbox,       \* traffic-update messages sent to the main window, not yet handled:
                        \* each sample named by the instant that produced it
    lastReceived        \* history: the sample handleUpdate stored last, 0 for none

subscriberVars == <<listening, trafficInbox, lastReceived>>

VARIABLES
    connectionList,     \* useConnectionList: connections
    processUsage        \* useNetworkData: processUsage, the ranked rows

usageVars == <<connectionList, processUsage>>

VARIABLES
    pullReply           \* the last reply of the get-traffic-stats handler

pullVars == <<pullReply>>

VARIABLES
    polls,              \* getNetworkConnections() invocations not yet answered to the renderer
    pollsIssued,        \* number of fetchConnections() calls so far
    appliedPoll         \* history: the call whose answer setConnections stored last, 0 for none

pollVars == <<polls, pollsIssued, appliedPoll>>

VARIABLES
    networkDataMounted, \* useNetworkData is mounted
    telemetryResumeAt,  \* useNetworkData: telemetryResumeAt, 0 for null
    telemetryPaused,    \* useNetworkData: telemetryPaused as the last render computed it
    pauseOutbox         \* set-paused messages sent by the renderer, not yet handled:
                        \* durationMs, and as history the instant of sending and the
                        \* resume timestamp held then

telemetryVars == <<networkDataMounted, telemetryResumeAt, telemetryPaused, pauseOutbox>>

VARIABLES
    locationsReply      \* the last results object of the get-ip-locations handler, with
                        \* the state of the ASN database and the outcome of each ASN lookup

lookupVars == <<locationsReply>>

VARIABLES
    history             \* useNetworkData: history, each point named by the sample it
                        \* was made from (0: the initial value of useTrafficStats)

historyVars == <<history>>

vars == <<engineVars, killVars, geoVars, uiVars, subscriberVars, usageVars, pullVars, pollVars, telemetryVars, lookupVars, historyVars>>

NoStats == [kind |-> "none", iface |-> "", rx_sec |-> 0, tx_sec |-> 0]

NoPause == [set |-> FALSE, at |-> 0, d |-> 0]

NoReply == [set |-> FALSE, pid |-> 0, channel |-> "", result |-> FALSE]

\* Addresses: IPv4 as four octets, the IPv6 loopback ::1 as eight groups.
Ipv6Loopback == <<0, 0, 0, 0, 0, 0, 0, 1>>
GeoIPs ==
    { <<8, 8, 8, 8>>, <<1, 1, 1, 1>>, <<203, 0, 113, 7>>, <<192, 168, 1, 10>>,
      <<172, 200, 0, 1>>, <<127, 0, 0, 1>>, Ipv6Loopback, <<10, 1, 2, 3>>,
      <<172, 16, 0, 1>>, <<172, 20, 5, 5>>, <<172, 31, 255, 255>> }

\* useSettings: the draft shown for given settings; Math.round(x * 10) / 10
\* kept in tenths
draftOf(settings) ==
    [thresholdMb |-> (settings.threshold * 10 + MiB \div 2) \div MiB,
     cooldown |-> settings.cooldownMinutes,
     pauseMinutes |-> settings.pauseMinutes]

NoOutput ==
    [ok |-> FALSE, rx_sec |-> 0, tx_sec |-> 0, iface |-> "",
     notifications |-> <<>>, toWin |-> <<>>, toOverlay |-> <<>>]

----------------------------------------------------------------------------
(* electron/main.ts: pure parts of monitorLoop *)

\* variant: only the operational state is tested
IsActive_upOnly(i) == i.operstate = "up"

IsActive(i) == i.operstate = "up" \/ i.rx_sec > 0 \/ i.tx_sec > 0

RECURSIVE SumActive(_, _, _)
\* the for-loop over networkStats, from index k, with the running totals acc
SumActive(stats, k, acc) ==
    IF k > Len(stats) THEN acc
    ELSE IF IsActive(stats[k])
         THEN SumActive(stats, k + 1,
                        [totalRx |-> acc.totalRx + stats[k].rx_sec,
                         totalTx |-> acc.totalTx + stats[k].tx_sec,
                         activeIface |-> IF acc.activeIface = "" THEN stats[k].iface
                                         ELSE acc.activeIface])
         ELSE SumActive(stats, k + 1, acc)

aggregatedStats(networkStats) ==
    LET t == SumActive(networkStats, 1, [totalRx |-> 0, totalTx |-> 0, activeIface |-> ""])
    IN  [rx_sec |-> t.totalRx, tx_sec |-> t.totalTx,
         iface |-> IF t.activeIface = "" THEN "merged" ELSE t.activeIface]

isPaused(t, until) == t < until

cooldownMs(settings) == settings.cooldownMinutes * 60 * 1000

\* variant: the cooldown setting is ignored
cooledDown_ignoresCooldown(t, last, settings) == t - last > 0

\* variant: the cooldown ends at equality
cooledDown_atEquality(t, last, settings) == t - last >= cooldownMs(settings)

cooledDown(t, last, settings) == t - last > cooldownMs(settings)

\* variant: the upload direction is tested first
titleText_uploadFirst(totalRx, totalTx, threshold) ==
    IF totalTx > threshold THEN "High Upload Traffic"
    ELSE IF totalRx > threshold THEN "High Download Traffic"
    ELSE ""

\* the title of the notification to raise for a sample, "" for none
titleText(totalRx, totalTx, threshold) ==
    IF totalRx > threshold THEN "High Download Traffic"
    ELSE IF totalTx > threshold THEN "High Upload Traffic"
    ELSE ""

\* the alert decision of one tick: the title to show, "" for no alert
alertDecision(t, totalRx, totalTx, settings, last, until) ==
    IF ~isPaused(t, until) /\ settings.threshold > 0 /\ cooledDown(t, last, settings)
    THEN titleText(totalRx, totalTx, settings.threshold)
    ELSE ""

\* variant: every evaluated sample is recorded
alertTime_onEvaluation(t, triggered, last) == t

\* lastAlertTime after the alert logic of a tick: if (triggered) lastAlertTime = now
alertTime(t, triggered, last) == IF triggered THEN t ELSE last

winAlive == win = "open"

\* variant: the sample is sent twice
trafficUpdates_twice(alive) ==
    IF alive THEN <<"traffic-update", "traffic-update">> ELSE <<>>

\* the traffic-update messages one tick sends to a window
trafficUpdates(alive) == IF alive THEN <<"traffic-update">> ELSE <<>>

\* variant: the event is sent whether or not the main window is alive
alertEvents_always(triggered, alive) ==
    IF triggered THEN <<"alert-triggered">> ELSE <<>>

\* the alert-triggered events one tick sends to the main window
alertEvents(triggered, alive) ==
    IF triggered /\ alive THEN <<"alert-triggered">> ELSE <<>>

----------------------------------------------------------------------------
(* Actions *)

Init ==
    /\ now = StartTime
    /\ pullReply = NoStats
    /\ polls = <<>>
    /\ networkDataMounted = FALSE
    /\ history = <<>>
    /\ locationsReply = [ips |-> <<>>, asnDb |-> "absent", asn |-> <<>>, results |-> <<>>]
    /\ telemetryResumeAt = 0
    /\ telemetryPaused = FALSE
    /\ pauseOutbox = <<>>
    /\ pollsIssued = 0
    /\ appliedPoll = 0
    /\ started = FALSE
    /\ platform = "unknown"
    /\ win = "none"
    /\ overlayWin = FALSE
    /\ isMonitoring = FALSE
    /\ pc = "idle"
    /\ monitoringTimeout = 0
    /\ lastAlertTime = 0
    /\ pauseAlertsUntil = 0
    /\ currentSettings = defaultSettings
    /\ out = NoOutput
    /\ settingsChanged = FALSE
    /\ lastPause = NoPause
    /\ resumedEarly = FALSE
    /\ osKills = <<>>
    /\ killPending = {}
    /\ killReply = NoReply
    /\ GLOBAL_IP_CACHE = [ip \in GeoIPs |-> "none"]
    /\ mounted = FALSE
    /\ ips = <<>>
    /\ hookGen = 0
    /\ pendingRequests = {}
    /\ locations = {}
    /\ requests = <<>>
    /\ lookups = [ip \in GeoIPs |-> 0]
    /\ failedIps = {}
    /\ rendererStarted = FALSE
    /\ uiSettings = defaultSettings
    /\ isModalOpen = FALSE
    /\ draft = draftOf(defaultSettings)
    /\ saved = FALSE
    /\ listening = FALSE
    /\ trafficInbox = <<>>
    /\ lastReceived = 0
    /\ connectionList = <<>>
    /\ processUsage = <<>>

\* variant: startMonitoring without its guard
startMonitoring_noGuard == isMonitoring' = TRUE /\ pc' = "reading"

\* startMonitoring(): a no-op when monitoring is on, else monitorLoop() runs
\* up to its read
startMonitoring ==
    IF isMonitoring THEN UNCHANGED <<isMonitoring, pc>>
    ELSE isMonitoring' = TRUE /\ pc' = "reading"

\* app.whenReady(): createWindow(); startMonitoring()
AppReady ==
    /\ ~started
    /\ started' = TRUE
    /\ win' = "open"
    /\ startMonitoring
    /\ UNCHANGED <<now, platform, overlayWin, monitoringTimeout, lastAlertTime,
                   pauseAlertsUntil, currentSettings, out, settingsChanged, lastPause,
                   resumedEarly>>
    /\ UNCHANGED <<killVars, geoVars, uiVars, subscriberVars, usageVars, pullVars, pollVars, telemetryVars, lookupVars, historyVars>>

\* The clock moves on to a later instant.  A pending timer that is due
\* fires before the clock moves further; what the tick of the instant left
\* behind has been delivered.
Advance ==
   
    /\ ~(pc = "scheduled" /\ now >= monitoringTimeout)
    /\ \E t \in Instants : t > now /\ now' = t
    /\ out' = NoOutput
    /\ UNCHANGED <<started, platform, win, overlayWin, isMonitoring, pc,
                   monitoringTimeout, lastAlertTime, pauseAlertsUntil, currentSettings,
                   settingsChanged, lastPause, resumedEarly>>
    /\ UNCHANGED <<killVars, geoVars, uiVars, subscriberVars, usageVars, pullVars, pollVars, telemetryVars, lookupVars, historyVars>>

\* setTimeout(monitorLoop, 1000) fires: monitorLoop starts its read
TimerFire ==
   
    /\ pc = "scheduled" /\ now >= monitoringTimeout
    /\ isMonitoring
    /\ pc' = "reading"
    /\ monitoringTimeout' = 0
    /\ UNCHANGED <<now, started, platform, win, overlayWin, isMonitoring, lastAlertTime,
                   pauseAlertsUntil, currentSettings, out, settingsChanged, lastPause,
                   resumedEarly>>
    /\ UNCHANGED <<killVars, geoVars, uiVars, subscriberVars, usageVars, pullVars, pollVars, telemetryVars, lookupVars, historyVars>>

\* variant: no tick is scheduled while alerts are paused
Reschedule_unlessPaused ==
    IF isMonitoring /\ ~isPaused(now, pauseAlertsUntil)
    THEN pc' = "scheduled" /\ monitoringTimeout' = now + TickInterval
    ELSE pc' = "idle" /\ monitoringTimeout' = monitoringTimeout

\* variant: no tick is scheduled after a failed read
Reschedule_onlyOnSuccess ==
    IF isMonitoring /\ out'.ok
    THEN pc' = "scheduled" /\ monitoringTimeout' = now + TickInterval
    ELSE pc' = "idle" /\ monitoringTimeout' = monitoringTimeout

\* the tail of monitorLoop: schedule the next tick
Reschedule ==
    IF isMonitoring
    THEN pc' = "scheduled" /\ monitoringTimeout' = now + TickInterval
    ELSE pc' = "idle" /\ monitoringTimeout' = monitoringTimeout

\* monitorLoop after si.networkStats() resolved with networkStats
MonitorTick(networkStats) ==
   
    /\ pc = "reading"
    /\ LET agg == aggregatedStats(networkStats)
           title == alertDecision(now, agg.rx_sec, agg.tx_sec, currentSettings,
                                  lastAlertTime, pauseAlertsUntil)
           triggered == title # ""
       IN  /\ lastAlertTime' = alertTime(now, triggered, lastAlertTime)
           /\ out' = [ok |-> TRUE, rx_sec |-> agg.rx_sec, tx_sec |-> agg.tx_sec,
                      iface |-> agg.iface,
                      notifications |-> IF triggered THEN <<title>> ELSE <<>>,
                      toWin |-> trafficUpdates(winAlive) \o alertEvents(triggered, winAlive),
                      toOverlay |-> trafficUpdates(overlayWin)]
           /\ settingsChanged' = IF triggered THEN FALSE ELSE settingsChanged
    /\ trafficInbox' = IF listening
                       THEN trafficInbox \o [i \in 1..Len(trafficUpdates(winAlive)) |-> now]
                       ELSE trafficInbox
    /\ UNCHANGED <<listening, lastReceived>>
    /\ Reschedule
    /\ UNCHANGED <<now, started, platform, win, overlayWin, isMonitoring,
                   pauseAlertsUntil, currentSettings, lastPause, resumedEarly>>
    /\ UNCHANGED <<killVars, geoVars, uiVars, usageVars, pullVars, pollVars, telemetryVars, lookupVars, historyVars>>

\* monitorLoop when si.networkStats() rejected: the catch branch
MonitorTickFail ==
   
    /\ pc = "reading"
    /\ out' = NoOutput
    /\ Reschedule
    /\ UNCHANGED <<now, started, platform, win, overlayWin, isMonitoring,
                   lastAlertTime, pauseAlertsUntil, currentSettings, settingsChanged, lastPause,
                   resumedEarly>>
    /\ UNCHANGED <<killVars, geoVars, uiVars, subscriberVars, usageVars, pullVars, pollVars, telemetryVars, lookupVars, historyVars>>

mergeSettings(cur, payload) ==
    IF payload.present
    THEN [f \in Fields |-> IF f \in DOMAIN payload.fields THEN payload.fields[f] ELSE cur[f]]
    ELSE cur

\* ipcMain.on('update-settings')
UpdateSettings(payload) ==
    /\ started
    /\ currentSettings' = mergeSettings(currentSettings, payload)
    /\ settingsChanged' = (settingsChanged \/ currentSettings' # currentSettings)
    /\ lastPause' = NoPause
    /\ resumedEarly' = FALSE
    /\ UNCHANGED <<now, started, platform, win, overlayWin, isMonitoring, pc,
                   monitoringTimeout, lastAlertTime, pauseAlertsUntil, out>>
    /\ UNCHANGED <<killVars, geoVars, uiVars, subscriberVars, usageVars, pullVars, pollVars, telemetryVars, lookupVars, historyVars>>

pauseDeadline(t, durationMs) == IF durationMs > 0 THEN t + durationMs ELSE 0

\* ipcMain.on('set-paused')
setPausedHandler(durationMs) ==
    /\ started
    /\ pauseAlertsUntil' = pauseDeadline(now, durationMs)
    /\ lastPause' = IF durationMs > 0 THEN [set |-> TRUE, at |-> now, d |-> durationMs]
                    ELSE NoPause
    /\ resumedEarly' = (durationMs = 0 /\ isPaused(now, pauseAlertsUntil))
    /\ UNCHANGED <<now, started, platform, win, overlayWin, isMonitoring, pc,
                   monitoringTimeout, lastAlertTime, currentSettings, out, settingsChanged>>

\* set-paused arrives with any duration
SetPaused(durationMs) ==
    /\ setPausedHandler(durationMs)
    /\ UNCHANGED <<killVars, geoVars, uiVars, subscriberVars, usageVars, pullVars, pollVars, telemetryVars, lookupVars, historyVars>>

----------------------------------------------------------------------------
(* electron/main.ts: windows; hooks/useTrafficStats.ts: the subscriber *)

Platforms == {"darwin", "other"}

\* the values process.platform can have, given what has been read of it
possiblePlatforms == IF platform = "unknown" THEN Platforms ELSE {platform}

\* app.on('window-all-closed') when the last window went, nothing otherwise:
\* app.quit() unless on darwin; before-quit clears the timer
WindowClosed(noneLeft) ==
    IF noneLeft
    THEN \E p \in possiblePlatforms :
            /\ platform' = p
            /\ IF p = "darwin" THEN UNCHANGED <<pc, monitoringTimeout>>
               ELSE pc' = "quit" /\ monitoringTimeout' = 0
    ELSE UNCHANGED <<platform, pc, monitoringTimeout>>

\* the user closes the main window: win keeps the destroyed BrowserWindow
CloseWindow ==
    /\ started /\ pc # "quit"
    /\ win = "open"
    /\ win' = "destroyed"
    /\ WindowClosed(~overlayWin)
    /\ listening' = FALSE
    /\ trafficInbox' = <<>>
    /\ UNCHANGED lastReceived
    /\ UNCHANGED <<now, started, overlayWin, isMonitoring, lastAlertTime, pauseAlertsUntil,
                   currentSettings, out, settingsChanged, lastPause, resumedEarly>>
    /\ UNCHANGED <<killVars, geoVars, uiVars, usageVars, pullVars, pollVars, telemetryVars, lookupVars, historyVars>>

\* ipcMain.handle('toggle-overlay')
ToggleOverlay ==
    /\ started /\ pc # "quit"
    /\ overlayWin' = ~overlayWin
    /\ WindowClosed(overlayWin /\ win # "open")
    /\ UNCHANGED <<now, started, win, isMonitoring, lastAlertTime, pauseAlertsUntil,
                   currentSettings, out, settingsChanged, lastPause, resumedEarly>>
    /\ UNCHANGED <<killVars, geoVars, uiVars, subscriberVars, usageVars, pullVars, pollVars, telemetryVars, lookupVars, historyVars>>

\* app.on('activate'), a darwin event: createWindow() when no window is left
Activate ==
    /\ started /\ pc # "quit"
    /\ "darwin" \in possiblePlatforms
    /\ win # "open" /\ ~overlayWin
    /\ platform' = "darwin"
    /\ win' = "open"
    /\ UNCHANGED <<now, started, overlayWin, isMonitoring, pc, monitoringTimeout,
                   lastAlertTime, pauseAlertsUntil, currentSettings, out, settingsChanged,
                   lastPause, resumedEarly>>
    /\ UNCHANGED <<killVars, geoVars, uiVars, subscriberVars, usageVars, pullVars, pollVars, telemetryVars, lookupVars, historyVars>>

\* startMonitoring() called while monitoring is on
StartMonitoring ==
    /\ started /\ pc # "quit"
    /\ startMonitoring
    /\ UNCHANGED <<now, started, platform, win, overlayWin, monitoringTimeout,
                   lastAlertTime, pauseAlertsUntil, currentSettings, out, settingsChanged,
                   lastPause, resumedEarly>>
    /\ UNCHANGED <<killVars, geoVars, uiVars, subscriberVars, usageVars, pullVars, pollVars, telemetryVars, lookupVars, historyVars>>

\* the length setHistory keeps (nextHistory.length > 300 in the source),
\* scaled to the samples one run of the model produces
HistoryLimit == 3

\* setHistory: the point of trafficStats is appended, the oldest dropped
\* beyond the limit
historyEffect(prev, point) ==
    LET nextHistory == Append(prev, point)
    IN  IF Len(nextHistory) > HistoryLimit THEN Tail(nextHistory) ELSE nextHistory

\* useTrafficStats: the effect registers handleUpdate on 'traffic-update'
TrafficListen ==
    /\ winAlive /\ ~listening
    /\ listening' = TRUE
    /\ UNCHANGED <<trafficInbox, lastReceived>>
    /\ UNCHANGED <<engineVars, killVars, geoVars, uiVars, usageVars, pullVars, pollVars, telemetryVars, lookupVars, historyVars>>

\* handleUpdate: the oldest message is handled, setStats(data); in
\* useNetworkData the traffic effect runs on the new trafficStats
HandleUpdate ==
    /\ trafficInbox # <<>>
    /\ lastReceived' = Head(trafficInbox)
    /\ history' = IF networkDataMounted THEN historyEffect(history, Head(trafficInbox))
                  ELSE history
    /\ trafficInbox' = Tail(trafficInbox)
    /\ UNCHANGED listening
    /\ UNCHANGED <<engineVars, killVars, geoVars, uiVars, usageVars, pullVars, pollVars, telemetryVars, lookupVars>>

----------------------------------------------------------------------------
(* src/hooks/useConnectionList.ts and the process usage effect of
   useNetworkData *)

MaxRows == 8
MaxProcesses == 9

\* a connection of process pid as the main process reports it
Conn(pid) == [pidIsNumber |-> TRUE, pid |-> pid, process |-> "app", protocol |-> "tcp"]

\* connections with a missing pid, a missing name, other protocols
OddConns ==
    { [pidIsNumber |-> FALSE, pid |-> 0, process |-> "", protocol |-> "udp"],
      [pidIsNumber |-> FALSE, pid |-> 0, process |-> "chrome", protocol |-> "tcp6"],
      [pidIsNumber |-> FALSE, pid |-> 0, process |-> "dns", protocol |-> ""],
      [pidIsNumber |-> TRUE, pid |-> -1, process |-> "svc", protocol |-> "TCP"],
      [pidIsNumber |-> TRUE, pid |-> 7, process |-> "", protocol |-> "icmp"] }

SeqsUpTo2(S) == UNION { [1..n -> S] : n \in 0..2 }

\* the snapshots get-network-connections may return: n processes with one
\* connection each, followed by up to two more connections of some of them;
\* and short snapshots of odd connections
ConnectionLists ==
    { [i \in 1..n |-> Conn(i)] \o extra :
        n \in 1..MaxProcesses, extra \in SeqsUpTo2({Conn(1), Conn(5), Conn(MaxProcesses)}) }
    \cup SeqsUpTo2(OddConns)

\* typeof conn.pid === 'number' ? conn.pid : -1
pidOf(conn) == IF conn.pidIsNumber THEN conn.pid ELSE -1

\* (conn.protocol || '').toLowerCase().startsWith(prefix), on the protocol
\* names of the snapshots
\* variant: the protocol is compared without toLowerCase()
startsWithTcp_caseSensitive(protocol) == protocol \in {"tcp", "tcp6"}

startsWithTcp(protocol) == protocol \in {"tcp", "tcp6", "TCP"}
startsWithUdp(protocol) == protocol \in {"udp", "udp6", "UDP"}

\* the position of pid's entry in the Map, 0 when it has none
entryOf(aggregated, pid) ==
    IF \E i \in DOMAIN aggregated : aggregated[i].pid = pid
    THEN CHOOSE i \in DOMAIN aggregated : aggregated[i].pid = pid
    ELSE 0

\* variant: an existing entry's count is not incremented
counted_noIncrement(existing, conn) ==
    [existing EXCEPT
        !.connections = 1,
        !.tcp = IF startsWithTcp(conn.protocol) THEN @ + 1 ELSE @,
        !.udp = IF ~startsWithTcp(conn.protocol) /\ startsWithUdp(conn.protocol)
                THEN @ + 1 ELSE @,
        !.name = IF conn.process # "" THEN conn.process ELSE @]

\* the body of connectionList.forEach on the entry of the connection's pid
counted(existing, conn) ==
    [existing EXCEPT
        !.connections = @ + 1,
        !.tcp = IF startsWithTcp(conn.protocol) THEN @ + 1 ELSE @,
        !.udp = IF ~startsWithTcp(conn.protocol) /\ startsWithUdp(conn.protocol)
                THEN @ + 1 ELSE @,
        !.name = IF conn.process # "" THEN conn.process ELSE @]

RECURSIVE aggregate(_, _, _)
\* connectionList.forEach from index k: the Map's values in insertion order
aggregate(list, k, aggregated) ==
    IF k > Len(list) THEN aggregated
    ELSE LET conn == list[k]
             pid == pidOf(conn)
             at == entryOf(aggregated, pid)
             existing == IF at # 0 THEN aggregated[at]
                         ELSE [name |-> IF conn.process # "" THEN conn.process ELSE "System",
                               pid |-> pid, connections |-> 0, tcp |-> 0, udp |-> 0]
         IN  aggregate(list, k + 1,
                       IF at # 0 THEN [aggregated EXCEPT ![at] = counted(existing, conn)]
                       ELSE Append(aggregated, counted(existing, conn)))

RECURSIVE sumConnections(_, _)
\* totals.reduce((sum, entry) => sum + entry.connections, 0) from index k
sumConnections(totals, k) ==
    IF k > Len(totals) THEN 0 ELSE totals[k].connections + sumConnections(totals, k + 1)

\* ... || 1
connectionTotal(totals) ==
    IF sumConnections(totals, 1) # 0 THEN sumConnections(totals, 1) ELSE 1

\* variant: an entry is placed before the entries of equal score
placeOf_beforeEqual(sorted, entry) ==
    Cardinality({ i \in DOMAIN sorted : sorted[i].connections > entry.connections })

\* the number of entries a stable descending sort keeps before entry: those
\* already placed whose score is not smaller (b.activityScore - a.activityScore,
\* scores having the common denominator connectionTotal)
placeOf(sorted, entry) ==
    Cardinality({ i \in DOMAIN sorted : sorted[i].connections >= entry.connections })

RECURSIVE sortByScore(_, _, _)
\* .sort((a, b) => b.activityScore - a.activityScore), a stable sort: the
\* entries from index k inserted into sorted
sortByScore(rows, k, sorted) ==
    IF k > Len(rows) THEN sorted
    ELSE LET n == placeOf(sorted, rows[k])
         IN  sortByScore(rows, k + 1,
                         SubSeq(sorted, 1, n) \o <<rows[k]>> \o SubSeq(sorted, n + 1, Len(sorted)))

\* the rows of the usage table: the activity score is kept as the fraction
\* connections / total; the rx and tx estimates, the score times the current
\* rates, are not represented
ranked(list) ==
    LET totals == aggregate(list, 1, <<>>)
        total == connectionTotal(totals)
        rows == [i \in DOMAIN totals |->
                    [pid |-> totals[i].pid, name |-> totals[i].name,
                     connections |-> totals[i].connections,
                     tcp |-> totals[i].tcp, udp |-> totals[i].udp,
                     activityScore |-> [num |-> totals[i].connections, den |-> total]]]
        sorted == sortByScore(rows, 1, <<>>)
    IN  SubSeq(sorted, 1, IF Len(sorted) < MaxRows THEN Len(sorted) ELSE MaxRows)

\* fetchConnections resolved with an array: setConnections(data), then the
\* effect computes the process usage
ConnectionsPolled(data) ==
    /\ started
    /\ data # connectionList
    /\ connectionList' = data
    /\ processUsage' = ranked(data)
    /\ UNCHANGED <<engineVars, killVars, geoVars, uiVars, subscriberVars, pullVars, pollVars, telemetryVars, lookupVars, historyVars>>

\* useConnectionList and the get-network-connections handler, step by step.
\* The interval timer may fire while earlier calls are unanswered.

MaxPolls == 3

\* what si.networkConnections() may report when it succeeds
PolledLists == { <<>>, <<Conn(1)>>, <<Conn(1), Conn(2)>> }

\* fetchConnections(): the initial call or one started by the interval timer
fetchConnections ==
    /\ started
    /\ pollsIssued < MaxPolls
    /\ pollsIssued' = pollsIssued + 1
    /\ polls' = Append(polls, [id |-> pollsIssued + 1, stage |-> "sent",
                               failed |-> FALSE, data |-> <<>>])
    /\ UNCHANGED appliedPoll
    /\ UNCHANGED <<engineVars, killVars, geoVars, uiVars, subscriberVars, usageVars, pullVars, telemetryVars, lookupVars, historyVars>>

\* ipcMain.handle('get-network-connections'): the read succeeds
GetNetworkConnections(i, connections) ==
    /\ i \in DOMAIN polls
    /\ polls[i].stage = "sent"
    /\ polls' = [polls EXCEPT ![i].stage = "returned", ![i].data = connections]
    /\ UNCHANGED <<pollsIssued, appliedPoll>>
    /\ UNCHANGED <<engineVars, killVars, geoVars, uiVars, subscriberVars, usageVars, pullVars, telemetryVars, lookupVars, historyVars>>

\* ipcMain.handle('get-network-connections'): the read fails, catch returns []
GetNetworkConnectionsFails(i) ==
    /\ i \in DOMAIN polls
    /\ polls[i].stage = "sent"
    /\ polls' = [polls EXCEPT ![i].stage = "returned", ![i].failed = TRUE, ![i].data = <<>>]
    /\ UNCHANGED <<pollsIssued, appliedPoll>>
    /\ UNCHANGED <<engineVars, killVars, geoVars, uiVars, subscriberVars, usageVars, pullVars, telemetryVars, lookupVars, historyVars>>

\* fetchConnections() resumes with the answer: if (Array.isArray(data)) setConnections(data)
setConnections(i) ==
    /\ i \in DOMAIN polls
    /\ polls[i].stage = "returned"
    /\ connectionList' = polls[i].data
    /\ processUsage' = ranked(polls[i].data)
    /\ appliedPoll' = polls[i].id
    /\ polls' = [k \in 1..(Len(polls) - 1) |-> IF k < i THEN polls[k] ELSE polls[k + 1]]
    /\ UNCHANGED pollsIssued
    /\ UNCHANGED <<engineVars, killVars, geoVars, uiVars, subscriberVars, pullVars, telemetryVars, lookupVars, historyVars>>

----------------------------------------------------------------------------
(* src/hooks/useNetworkData (useSettings.ts): pausing alerts from the UI *)

MaxUndelivered == 2

\* what localStorage may hold under the resume key when the hook mounts, 0 for nothing
StoredResumeAts == {0, StartTime + MsPerMinute}

\* telemetryResumeAt ? telemetryResumeAt > Date.now() : false
isTelemetryPaused(resumeAt, t) == resumeAt # 0 /\ resumeAt > t

\* Number(settings.pauseMinutes) > 0 ? Number(settings.pauseMinutes) : 5
pauseDurationMinutes(settings) == IF settings.pauseMinutes > 0 THEN settings.pauseMinutes ELSE 5

\* variant: the resume timestamp itself is sent
syncDuration_absolute(paused, resumeAt, t) == IF paused /\ resumeAt # 0 THEN resumeAt ELSE 0

\* the argument of the set-paused the sync effect sends
syncDuration(paused, resumeAt, t) == IF paused /\ resumeAt # 0 THEN resumeAt - t ELSE 0

setPausedMessage(paused, resumeAt, t) ==
    [durationMs |-> syncDuration(paused, resumeAt, t), sentAt |-> t,
     resumeAt |-> IF paused THEN resumeAt ELSE 0]

\* a render with telemetryResumeAt = resumeAt, and the effects of which a
\* dependency changed: the sync effect, and the traffic effect, which depends
\* on trafficStats and telemetryPaused
renderAndSync(resumeAt) ==
    LET paused == isTelemetryPaused(resumeAt, now)
    IN  /\ telemetryResumeAt' = resumeAt
        /\ telemetryPaused' = paused
        /\ history' = IF paused # telemetryPaused THEN historyEffect(history, lastReceived)
                      ELSE history
        /\ pauseOutbox' = IF paused # telemetryPaused \/ resumeAt # telemetryResumeAt
                          THEN Append(pauseOutbox, setPausedMessage(paused, resumeAt, now))
                          ELSE pauseOutbox

\* useNetworkData mounts: telemetryResumeAt from storage, first render, the
\* sync effect and the traffic effect on the current trafficStats
NetworkDataMount(stored) ==
    /\ rendererStarted /\ ~networkDataMounted
    /\ networkDataMounted' = TRUE
    /\ history' = historyEffect(<<>>, lastReceived)
    /\ LET resumeAt == IF stored # 0 /\ stored > now THEN stored ELSE 0
           paused == isTelemetryPaused(resumeAt, now)
       IN  /\ telemetryResumeAt' = resumeAt
           /\ telemetryPaused' = paused
           /\ pauseOutbox' = Append(pauseOutbox, setPausedMessage(paused, resumeAt, now))
    /\ UNCHANGED <<engineVars, killVars, geoVars, uiVars, subscriberVars, usageVars, pullVars, pollVars, lookupVars>>

\* toggleTelemetry()
ToggleTelemetry ==
    /\ networkDataMounted
    /\ Len(pauseOutbox) < MaxUndelivered
    /\ renderAndSync(IF telemetryPaused THEN 0
                     ELSE now + pauseDurationMinutes(uiSettings) * MsPerMinute)
    /\ UNCHANGED networkDataMounted
    /\ UNCHANGED <<engineVars, killVars, geoVars, uiVars, subscriberVars, usageVars, pullVars, pollVars, lookupVars>>

\* the countdown interval fires
CountdownTick ==
    /\ networkDataMounted
    /\ telemetryResumeAt # 0
    /\ Len(pauseOutbox) < MaxUndelivered
    /\ renderAndSync(IF telemetryResumeAt - now <= 0 THEN 0 ELSE telemetryResumeAt)
    /\ UNCHANGED networkDataMounted
    /\ UNCHANGED <<engineVars, killVars, geoVars, uiVars, subscriberVars, usageVars, pullVars, pollVars, lookupVars>>

\* the component renders again for another reason after the pause has run out
Render ==
    /\ networkDataMounted
    /\ telemetryPaused /\ ~isTelemetryPaused(telemetryResumeAt, now)
    /\ Len(pauseOutbox) < MaxUndelivered
    /\ renderAndSync(telemetryResumeAt)
    /\ UNCHANGED networkDataMounted
    /\ UNCHANGED <<engineVars, killVars, geoVars, uiVars, subscriberVars, usageVars, pullVars, pollVars, lookupVars>>

\* the main process handles the oldest set-paused of the renderer
DeliverSetPaused ==
    /\ pauseOutbox # <<>>
    /\ setPausedHandler(Head(pauseOutbox).durationMs)
    /\ pauseOutbox' = Tail(pauseOutbox)
    /\ UNCHANGED <<networkDataMounted, telemetryResumeAt, telemetryPaused>>
    /\ UNCHANGED <<killVars, geoVars, uiVars, subscriberVars, usageVars, pullVars, pollVars, lookupVars, historyVars>>

----------------------------------------------------------------------------
(* electron/main.ts: the get-traffic-stats handler *)

DefaultInterfaces == {"eth0", "wlan0", "lo"}

\* networkStats.find(iface => iface.iface === defaultInterface) || networkStats[0]
defaultStats(networkStats, defaultInterface) ==
    LET found == { k \in DOMAIN networkStats : networkStats[k].iface = defaultInterface }
    IN  IF found # {}
        THEN networkStats[CHOOSE k \in found : \A j \in found : k <= j]
        ELSE IF Len(networkStats) > 0
        THEN networkStats[1]
        ELSE [iface |-> "", operstate |-> "", rx_sec |-> 0, tx_sec |-> 0]

statsReply(networkStats, defaultInterface) ==
    LET stats == defaultStats(networkStats, defaultInterface)
    IN  IF Len(networkStats) = 0
        THEN [NoStats EXCEPT !.kind = "undefined"]
        ELSE [kind |-> "stats", iface |-> stats.iface,
              rx_sec |-> stats.rx_sec, tx_sec |-> stats.tx_sec]

\* ipcMain.handle('get-traffic-stats'): a fresh reading, reduced to the
\* default interface
GetTrafficStats(networkStats, defaultInterface) ==
    /\ started
    /\ pc # "quit"
    /\ pullReply' = statsReply(networkStats, defaultInterface)
    /\ UNCHANGED <<engineVars, killVars, geoVars, uiVars, subscriberVars, usageVars, pollVars, telemetryVars, lookupVars, historyVars>>

\* si.networkStats() or si.networkInterfaceDefault() rejects
GetTrafficStatsFails ==
    /\ started
    /\ pc # "quit"
    /\ pullReply' = [NoStats EXCEPT !.kind = "null"]
    /\ UNCHANGED <<engineVars, killVars, geoVars, uiVars, subscriberVars, usageVars, pollVars, telemetryVars, lookupVars, historyVars>>

----------------------------------------------------------------------------
(* electron/main.ts, electron/preload.ts: terminating a process *)

KillFloor == 1000
MaxKills == 2

\* pids a kill request may carry
Pids == {-1, 0, 1, 999, 1000, 5000}

\* ipcMain.handle('kill-process'): if (!pid || pid === -1) resolve(false)
refusesKill(pid) == pid = 0 \/ pid = -1

\* ipcMain.handle('kill-process-secure'): the pid is an integer here
refusesKillSecure(pid) == pid < KillFloor

\* a kill handler running up to its reply (refused) or up to the call of the
\* OS kill primitive, kill(pid, 'SIGKILL', cb)
KillHandler(pid, channel, refused) ==
    /\ started
    /\ IF refused
       THEN /\ killReply' = [set |-> TRUE, pid |-> pid, channel |-> channel, result |-> FALSE]
            /\ UNCHANGED <<osKills, killPending>>
       ELSE /\ Len(osKills) < MaxKills
            /\ [pid |-> pid, channel |-> channel] \notin killPending
            /\ osKills' = Append(osKills, [pid |-> pid, channel |-> channel])
            /\ killPending' = killPending \cup {[pid |-> pid, channel |-> channel]}
            /\ UNCHANGED killReply
    /\ UNCHANGED <<engineVars, geoVars, uiVars, subscriberVars, usageVars, pullVars, pollVars, telemetryVars, lookupVars, historyVars>>

\* window.ipcRenderer.killProcess(pid): preload invokes 'kill-process'
KillProcess(pid) == KillHandler(pid, "kill-process", refusesKill(pid))

\* ipcRenderer.invoke('kill-process-secure', pid)
KillProcessSecure(pid) == KillHandler(pid, "kill-process-secure", refusesKillSecure(pid))

\* the callback of kill(): the handler replies !err
KillCallback(k, err) ==
    /\ k \in killPending
    /\ killPending' = killPending \ {k}
    /\ killReply' = [set |-> TRUE, pid |-> k.pid, channel |-> k.channel, result |-> ~err]
    /\ UNCHANGED osKills
    /\ UNCHANGED <<engineVars, geoVars, uiVars, subscriberVars, usageVars, pullVars, pollVars, telemetryVars, lookupVars, historyVars>>

----------------------------------------------------------------------------
(* src/hooks/useGeoLocation.ts and ipcMain.handle('get-ip-locations') *)

MaxMounts == 2
MaxInflight == 2

\* the ips arguments the hook may be given
IpLists ==
    { << <<8, 8, 8, 8>> >>,
      << <<203, 0, 113, 7>> >>,
      << <<8, 8, 8, 8>>, <<8, 8, 8, 8>>, <<203, 0, 113, 7>> >>,
      << <<203, 0, 113, 7>>, <<203, 0, 113, 7>>, <<192, 168, 1, 10>> >>,
      << <<172, 200, 0, 1>>, <<8, 8, 8, 8>> >>,
      << <<127, 0, 0, 1>>, Ipv6Loopback, <<10, 1, 2, 3>> >>,
      << <<172, 16, 0, 1>>, <<172, 20, 5, 5>>, <<172, 31, 255, 255>> >> }

\* lists of public addresses, for renders that follow each other while
\* lookups are in flight
PublicIpLists ==
    { << <<8, 8, 8, 8>> >>,
      << <<1, 1, 1, 1>> >>,
      << <<8, 8, 8, 8>>, <<203, 0, 113, 7>>, <<1, 1, 1, 1>> >> }

Range(seq) == { seq[i] : i \in DOMAIN seq }

\* the local geoip-lite dataset: the addresses it has a record for
Registered == { <<8, 8, 8, 8>>, <<1, 1, 1, 1>>, <<172, 200, 0, 1>> }

\* geoip.lookup(ip)
geoLookup(ip) == IF ip \in Registered THEN "loc" ELSE "null"

\* variant: the prefix '172.2' is not tested
skipped_without172_2(ip) ==
    \/ ip = <<127, 0, 0, 1>>
    \/ ip = Ipv6Loopback
    \/ (ip[1] = 192 /\ ip[2] = 168)
    \/ ip[1] = 10
    \/ (ip[1] = 172 /\ ip[2] \in {16, 17, 18, 19})
    \/ (ip[1] = 172 /\ ip[2] \in {30, 31})

\* the addresses resolveIps skips; ip.startsWith(prefix) on the dotted
\* decimal text, stated on the octets
skipped(ip) ==
    \/ ip = <<127, 0, 0, 1>>
    \/ ip = Ipv6Loopback
    \/ (ip[1] = 192 /\ ip[2] = 168)
    \/ ip[1] = 10
    \/ (ip[1] = 172 /\ ip[2] \in {16, 17, 18, 19})
    \/ (ip[1] = 172 /\ (ip[2] = 2 \/ ip[2] \in 20..29 \/ ip[2] \in 200..255))
    \/ (ip[1] = 172 /\ ip[2] \in {30, 31})

\* !GLOBAL_IP_CACHE.has(ip) && !pendingRequests.current.has(ip)
needsFetch(ip, cache, pending) == cache[ip] = "none" /\ ip \notin pending

RECURSIVE collectIps(_, _, _, _, _)
\* the for-loop of resolveIps over ipList from index k: the batch ipsToFetch
\* and the pending set it leaves
collectIps(ipList, k, cache, ipsToFetch, pending) ==
    IF k > Len(ipList) THEN [ipsToFetch |-> ipsToFetch, pending |-> pending]
    ELSE IF ~skipped(ipList[k]) /\ needsFetch(ipList[k], cache, pending)
         THEN collectIps(ipList, k + 1, cache, Append(ipsToFetch, ipList[k]),
                         pending \cup {ipList[k]})
         ELSE collectIps(ipList, k + 1, cache, ipsToFetch, pending)

RECURSIVE uniqueIps(_, _, _)
\* [...new Set(ips)]: the first occurrences, in order
uniqueIps(ipList, k, acc) ==
    IF k > Len(ipList) THEN acc
    ELSE IF ipList[k] \in Range(acc) THEN uniqueIps(ipList, k + 1, acc)
         ELSE uniqueIps(ipList, k + 1, Append(acc, ipList[k]))

\* a component using the hook mounts: a new instance, its locations taken
\* from the global cache
Mount ==
    /\ started /\ ~mounted /\ hookGen < MaxMounts
    /\ mounted' = TRUE
    /\ hookGen' = hookGen + 1
    /\ pendingRequests' = {}
    /\ locations' = { ip \in GeoIPs : GLOBAL_IP_CACHE[ip] \in {"loc", "locNoIsp"} }
    /\ UNCHANGED <<GLOBAL_IP_CACHE, ips, requests, lookups, failedIps>>
    /\ UNCHANGED <<engineVars, killVars, uiVars, subscriberVars, usageVars, pullVars, pollVars, telemetryVars, lookupVars, historyVars>>

\* the component unmounts: the debounce timer is cleared, the instance dropped
Unmount ==
    /\ mounted
    /\ mounted' = FALSE
    /\ ips' = <<>>
    /\ pendingRequests' = {}
    /\ locations' = {}
    /\ UNCHANGED <<GLOBAL_IP_CACHE, hookGen, requests, lookups, failedIps>>
    /\ UNCHANGED <<engineVars, killVars, uiVars, subscriberVars, usageVars, pullVars, pollVars, telemetryVars, lookupVars, historyVars>>

\* the component renders with another ips argument
SetIps(ipList) ==
    /\ mounted /\ ipList # ips
    /\ ips' = ipList
    /\ UNCHANGED <<GLOBAL_IP_CACHE, mounted, hookGen, pendingRequests, locations, requests,
                   lookups, failedIps>>
    /\ UNCHANGED <<engineVars, killVars, uiVars, subscriberVars, usageVars, pullVars, pollVars, telemetryVars, lookupVars, historyVars>>

\* the debounce timer fires: resolveIps up to the await of getIpLocations
ResolveIps ==
    /\ mounted /\ Len(ips) > 0
    /\ Len(requests) < MaxInflight
    /\ LET r == collectIps(ips, 1, GLOBAL_IP_CACHE, <<>>, pendingRequests)
       IN  /\ r.ipsToFetch # <<>>
           /\ pendingRequests' = r.pending
           /\ requests' = Append(requests,
                                 [gen |-> hookGen, ips |-> r.ipsToFetch,
                                  snapshot |-> locations, stage |-> "sent",
                                  asnDb |-> "open"])
    /\ UNCHANGED <<GLOBAL_IP_CACHE, mounted, ips, hookGen, locations, lookups, failedIps>>
    /\ UNCHANGED <<engineVars, killVars, uiVars, subscriberVars, usageVars, pullVars, pollVars, telemetryVars, lookupVars, historyVars>>

\* the oldest invocation the main process has not handled yet
NextToHandle(i) ==
    /\ i \in DOMAIN requests
    /\ requests[i].stage = "sent"
    /\ \A j \in 1..(i - 1) : requests[j].stage # "sent"

\* ipcMain.handle('get-ip-locations'): one lookup for each distinct address,
\* with the ASN database in state asnDb
GetIpLocations(asnDb) ==
    \E i \in DOMAIN requests :
        /\ NextToHandle(i)
        /\ LET u == uniqueIps(requests[i].ips, 1, <<>>)
           IN  lookups' = [ip \in GeoIPs |-> IF ip \in Range(u) THEN lookups[ip] + 1
                                              ELSE lookups[ip]]
        /\ requests' = [requests EXCEPT ![i].stage = "answered", ![i].asnDb = asnDb]
        /\ UNCHANGED <<GLOBAL_IP_CACHE, mounted, ips, hookGen, pendingRequests, locations,
                       failedIps>>
        /\ UNCHANGED <<engineVars, killVars, uiVars, subscriberVars, usageVars, pullVars, pollVars, telemetryVars, lookupVars, historyVars>>

\* the handler throws after n lookups: the catch returns {}
GetIpLocationsThrows ==
    \E i \in DOMAIN requests :
        /\ NextToHandle(i)
        /\ LET u == uniqueIps(requests[i].ips, 1, <<>>)
           IN  \E n \in 0..(Len(u) - 1) :
                 lookups' = [ip \in GeoIPs |->
                               IF \E k \in 1..n : u[k] = ip THEN lookups[ip] + 1
                               ELSE lookups[ip]]
        /\ requests' = [requests EXCEPT ![i].stage = "empty"]
        /\ failedIps' = failedIps \cup Range(requests[i].ips)
        /\ UNCHANGED <<GLOBAL_IP_CACHE, mounted, ips, hookGen, pendingRequests, locations>>
        /\ UNCHANGED <<engineVars, killVars, uiVars, subscriberVars, usageVars, pullVars, pollVars, telemetryVars, lookupVars, historyVars>>

\* the value resolveIps caches for an answered address: null, or the location
\* with the isp the handler gave it
cacheValue(ip, asnDb) ==
    IF geoLookup(ip) # "loc" THEN "null"
    ELSE IF asnDb = "open" THEN "loc"
    ELSE "locNoIsp"

\* the instance that issued request r is still the mounted one
IsCurrent(r) == mounted /\ r.gen = hookGen

\* the invocation rejects: the catch branch of resolveIps
InvokeRejects ==
    /\ requests # <<>> /\ requests[1].stage = "sent"
    /\ LET r == requests[1]
       IN  /\ pendingRequests' = IF IsCurrent(r) THEN pendingRequests \ Range(r.ips)
                                 ELSE pendingRequests
           /\ failedIps' = failedIps \cup Range(r.ips)
    /\ requests' = Tail(requests)
    /\ UNCHANGED <<GLOBAL_IP_CACHE, mounted, ips, hookGen, locations, lookups>>
    /\ UNCHANGED <<engineVars, killVars, uiVars, subscriberVars, usageVars, pullVars, pollVars, telemetryVars, lookupVars, historyVars>>

\* the invocation resolves: resolveIps after the await
ResolveDone ==
    /\ requests # <<>> /\ requests[1].stage \in {"answered", "empty"}
    /\ LET r == requests[1]
           got == IF r.stage = "answered" THEN Range(r.ips) ELSE {}
           valid == { ip \in got : geoLookup(ip) = "loc" }
       IN  /\ GLOBAL_IP_CACHE' = [ip \in GeoIPs |-> IF ip \in got THEN cacheValue(ip, r.asnDb)
                                                     ELSE GLOBAL_IP_CACHE[ip]]
           /\ pendingRequests' = IF IsCurrent(r) THEN pendingRequests \ got
                                 ELSE pendingRequests
           /\ locations' = IF IsCurrent(r) /\ valid # {} THEN r.snapshot \cup valid
                           ELSE locations
    /\ requests' = Tail(requests)
    /\ UNCHANGED <<mounted, ips, hookGen, lookups, failedIps>>
    /\ UNCHANGED <<engineVars, killVars, uiVars, subscriberVars, usageVars, pullVars, pollVars, telemetryVars, lookupVars, historyVars>>

\* The results object of get-ip-locations.

\* GeoLite2-ASN.mmdb: missing, present but Reader.open throws, or opened
AsnDbStates == {"absent", "unreadable", "open"}

\* asnReader.asn(ip): throws, answers with organization and number, answers without
AsnOutcomes == {"throws", "org", "bare"}

MaxBatch == 3

\* variant: no location without an open ASN database
ipResult_needsAsnDb(ip, asnDb, outcome) ==
    IF geoLookup(ip) = "loc" /\ asnDb = "open"
    THEN [isNull |-> FALSE,
          isp |-> IF outcome = "org" THEN "ORG" ELSE "Unknown ISP",
          asn |-> IF outcome = "org" THEN "AS1" ELSE ""]
    ELSE [isNull |-> TRUE, isp |-> "", asn |-> ""]

\* results[ip] for one address
ipResult(ip, asnDb, outcome) ==
    LET asnReader == asnDb = "open"
        isp == IF ~asnReader THEN "ISP Info Unavailable (No DB)"
               ELSE IF outcome = "org" THEN "ORG"
               ELSE "Unknown ISP"
        asn == IF asnReader /\ outcome = "org" THEN "AS1" ELSE ""
    IN  IF geoLookup(ip) = "loc"
        THEN [isNull |-> FALSE, isp |-> isp, asn |-> asn]
        ELSE [isNull |-> TRUE, isp |-> "", asn |-> ""]

\* ipcMain.handle('get-ip-locations'): the results for the distinct addresses of ipList
GetIpLocationsResults(ipList, asnDb, outcomes) ==
    /\ started
    /\ LET u == uniqueIps(ipList, 1, <<>>)
       IN  locationsReply' =
              [ips |-> u, asnDb |-> asnDb,
               asn |-> [k \in 1..Len(u) |-> outcomes[k]],
               results |-> [k \in 1..Len(u) |-> ipResult(u[k], asnDb, outcomes[k])]]
    /\ UNCHANGED <<engineVars, killVars, geoVars, uiVars, subscriberVars, usageVars, pullVars, pollVars, telemetryVars, historyVars>>

----------------------------------------------------------------------------
(* src/hooks/useSettings.ts and loadSettings of src/lib/utils.ts *)

\* what localStorage may hold under the settings key
StoredSettings ==
    {[present |-> FALSE, threshold |-> 0, cooldownMinutes |-> 0, pauseMinutes |-> 0]}
    \cup [present : {TRUE}, threshold : {0, 2 * MiB}, cooldownMinutes : {0, 2, -2},
          pauseMinutes : {1}]

\* the values the settings form may put in a draft field; thresholdMb in
\* tenths of a MiB
DraftVals == [thresholdMb |-> {0, 3, 20}, cooldown |-> {0, 2}, pauseMinutes |-> {2}]

Max(a, b) == IF a >= b THEN a ELSE b

\* Number(x) || fallback
orElse(x, fallback) == IF x # 0 THEN x ELSE fallback

\* loadSettings()
loadSettings(stored) ==
    IF ~stored.present THEN defaultSettings
    ELSE [threshold |-> orElse(stored.threshold, defaultSettings.threshold),
          cooldownMinutes |-> orElse(stored.cooldownMinutes, defaultSettings.cooldownMinutes),
          pauseMinutes |-> orElse(stored.pauseMinutes, defaultSettings.pauseMinutes)]

\* Math.max(0.5, thresholdMb) * 1024 * 1024 with
\* thresholdMb = Number(draft.thresholdMb) || settings.threshold / 1024 / 1024
savedThreshold(d, settings) ==
    IF d.thresholdMb # 0 THEN Max(MiB \div 2, (d.thresholdMb * MiB) \div 10)
    ELSE Max(MiB \div 2, settings.threshold)

\* the settings saveSettings stores
savedSettings(d, settings) ==
    [threshold |-> savedThreshold(d, settings),
     cooldownMinutes |-> Max(1, orElse(d.cooldown, settings.cooldownMinutes)),
     pauseMinutes |-> Max(1, orElse(d.pauseMinutes, settings.pauseMinutes))]

\* the renderer loads: useSettings initialises its state
RendererStart(stored) ==
    /\ started /\ ~rendererStarted
    /\ rendererStarted' = TRUE
    /\ uiSettings' = loadSettings(stored)
    /\ isModalOpen' = FALSE
    /\ draft' = draftOf(defaultSettings)
    /\ UNCHANGED saved
    /\ UNCHANGED <<engineVars, killVars, geoVars, subscriberVars, usageVars, pullVars, pollVars, telemetryVars, lookupVars, historyVars>>

\* setIsModalOpen(true) and the effect that fills the draft
OpenModal ==
    /\ rendererStarted /\ ~isModalOpen
    /\ isModalOpen' = TRUE
    /\ draft' = draftOf(uiSettings)
    /\ UNCHANGED <<rendererStarted, uiSettings, saved>>
    /\ UNCHANGED <<engineVars, killVars, geoVars, subscriberVars, usageVars, pullVars, pollVars, telemetryVars, lookupVars, historyVars>>

\* setIsModalOpen(false)
CloseModal ==
    /\ rendererStarted /\ isModalOpen
    /\ isModalOpen' = FALSE
    /\ UNCHANGED <<rendererStarted, uiSettings, draft, saved>>
    /\ UNCHANGED <<engineVars, killVars, geoVars, subscriberVars, usageVars, pullVars, pollVars, telemetryVars, lookupVars, historyVars>>

\* updateDraft(field, value)
UpdateDraft(field, value) ==
    /\ rendererStarted /\ isModalOpen
    /\ draft[field] # value
    /\ draft' = [draft EXCEPT ![field] = value]
    /\ UNCHANGED <<rendererStarted, uiSettings, isModalOpen, saved>>
    /\ UNCHANGED <<engineVars, killVars, geoVars, subscriberVars, usageVars, pullVars, pollVars, telemetryVars, lookupVars, historyVars>>

\* saveSettings(): the settings state is replaced and the modal closed;
\* nothing is sent to the main process
SaveSettings ==
    /\ rendererStarted /\ isModalOpen
    /\ uiSettings' = savedSettings(draft, uiSettings)
    /\ isModalOpen' = FALSE
    /\ saved' = TRUE
    /\ UNCHANGED <<rendererStarted, draft>>
    /\ UNCHANGED <<engineVars, killVars, geoVars, subscriberVars, usageVars, pullVars, pollVars, telemetryVars, lookupVars, historyVars>>

Next ==
    \/ AppReady
    \/ Advance
    \/ TimerFire
    \/ \E s \in NetworkStatsInputs : MonitorTick(s)
    \/ MonitorTickFail
    \/ \E p \in Payloads : UpdateSettings(p)
    \/ \E d \in Durations : SetPaused(d)
    \/ StartMonitoring

Spec == Init /\ [][Next]_vars

----------------------------------------------------------------------------
(* Alert engine: properties *)

\* a step in which monitorLoop evaluated a sample (the read succeeded)
Tick == pc = "reading" /\ pc' = "scheduled" /\ out'.ok

\* the sample evaluated in a Tick step
Breaches(o, threshold) == o.rx_sec > threshold \/ o.tx_sec > threshold

Raised == out'.notifications # <<>>
NotRaised == out'.notifications = <<>> /\ lastAlertTime' = lastAlertTime

\* the state right after a tick evaluated at the current instant
JustTicked == pc = "scheduled" /\ monitoringTimeout = now + TickInterval /\ out.ok

\* C1: with the settings unchanged since the last alert, a sample evaluated
\* less than the cooldown after that alert raises no alert, breaching or not.
C1_CooldownEnforced ==
    [][ (Tick /\ lastAlertTime > 0 /\ ~settingsChanged
              /\ now - lastAlertTime < currentSettings.cooldownMinutes * MsPerMinute)
        => NotRaised ]_vars

\* C1 witness: a breaching sample was just evaluated inside the cooldown of an
\* earlier alert, engine not paused, and was suppressed.
C1_Witness ==
    /\ JustTicked
    /\ lastAlertTime > 0 /\ lastAlertTime < now /\ ~settingsChanged
    /\ now - lastAlertTime < currentSettings.cooldownMinutes * MsPerMinute
    /\ now >= pauseAlertsUntil
    /\ currentSettings.threshold > 0
    /\ Breaches(out, currentSettings.threshold)
    /\ out.notifications = <<>>

C10_DownloadPriority ==
    [][ Tick =>
        /\ Len(out'.notifications) <= 1
        /\ (Raised /\ out'.rx_sec > currentSettings.threshold
                   /\ out'.tx_sec > currentSettings.threshold)
              => out'.notifications = <<"High Download Traffic">>
        /\ (out'.notifications = <<"High Upload Traffic">>)
              => (out'.tx_sec > currentSettings.threshold
                  /\ ~(out'.rx_sec > currentSettings.threshold)) ]_vars

\* C10 witness: a sample breaching in both directions just raised the
\* download notification.
C10_Witness ==
    /\ JustTicked
    /\ lastAlertTime = now
    /\ out.rx_sec > currentSettings.threshold
    /\ out.tx_sec > currentSettings.threshold
    /\ out.notifications = <<"High Download Traffic">>

\* C2 as claimed: after set-paused(d), d > 0, handled at time t and followed
\* by no other command, a sample evaluated before t + d raises no alert, and
\* a breaching sample evaluated at or after t + d, more than the cooldown
\* after the last alert, raises one.
C2_PauseThenResume ==
    [][ (Tick /\ lastPause.set) =>
        /\ (now < lastPause.at + lastPause.d) => NotRaised
        /\ (now >= lastPause.at + lastPause.d
              /\ Breaches(out', currentSettings.threshold)
              /\ now - lastAlertTime > currentSettings.cooldownMinutes * MsPerMinute)
           => (Raised /\ lastAlertTime' = now) ]_vars

\* C3 as claimed: with the engine not paused and more than the cooldown
\* elapsed since the last alert, a sample with rx or tx strictly above the
\* threshold raises exactly one alert and records the evaluation time; a
\* sample with both rates at or below the threshold raises none in any state.
C3_BreachRaisesAlert ==
    [][ Tick =>
        /\ (now >= pauseAlertsUntil
              /\ now - lastAlertTime > currentSettings.cooldownMinutes * MsPerMinute
              /\ Breaches(out', currentSettings.threshold))
           => (Len(out'.notifications) = 1 /\ lastAlertTime' = now)
        /\ ~Breaches(out', currentSettings.threshold) => NotRaised ]_vars

\* a payload that update-settings has to reject: a field is missing or
\* carries an invalid value
InvalidPayload(p) ==
    /\ p.present
    /\ \/ DOMAIN p.fields # Fields
       \/ \E f \in DOMAIN p.fields :
             \/ f = "threshold" /\ p.fields[f] <= 0
             \/ f # "threshold" /\ p.fields[f] < 1

\* C5 as claimed: an update-settings command with a missing field or an
\* invalid value leaves the engine's settings exactly as they were.
C5_InvalidUpdateRejected ==
    [][ (\E p \in Payloads : InvalidPayload(p) /\ UpdateSettings(p))
        => currentSettings' = currentSettings ]_vars

\* C11 as claimed: once set-paused(0) has been handled while the engine was
\* paused, and no other command followed, a breaching sample evaluated more
\* than the cooldown after the last alert raises an alert, whatever pause
\* deadline had been set before.
C11_ResumeEndsPause ==
    [][ (Tick /\ resumedEarly
              /\ Breaches(out', currentSettings.threshold)
              /\ now - lastAlertTime > currentSettings.cooldownMinutes * MsPerMinute)
        => (Raised /\ lastAlertTime' = now) ]_vars

\* a step in which monitorLoop ran with a failing read
TickFailed == pc = "reading" /\ pc' \in {"scheduled", "idle"} /\ ~out'.ok

Count(seq, x) == Cardinality({ i \in DOMAIN seq : seq[i] = x })

\* C12: a tick evaluated while alerts are paused still sends the sample to
\* every live window and schedules the next tick; handling set-paused leaves
\* the loop's position and timer as they are.
C12_SamplingUnaffectedByPause ==
    [][ /\ (Tick /\ isPaused(now, pauseAlertsUntil)) =>
              /\ Count(out'.toWin, "traffic-update") = (IF winAlive THEN 1 ELSE 0)
              /\ Count(out'.toOverlay, "traffic-update") = (IF overlayWin THEN 1 ELSE 0)
              /\ pc' = "scheduled" /\ monitoringTimeout' = now + TickInterval
        /\ (pc = "reading" /\ isPaused(now, pauseAlertsUntil)) => pc' # "idle"
        /\ (\E d \in Durations : SetPaused(d)) =>
              UNCHANGED <<isMonitoring, pc, monitoringTimeout>> ]_vars

\* C12 witness: a breaching sample was just evaluated during a pause: no
\* alert, but the sample went to the window and the next tick is scheduled.
C12_Witness ==
    /\ JustTicked
    /\ isPaused(now, pauseAlertsUntil)
    /\ currentSettings.threshold > 0
    /\ Breaches(out, currentSettings.threshold)
    /\ out.notifications = <<>>
    /\ out.toWin = <<"traffic-update">>

\* C13: a tick whose read fails sends nothing and raises nothing, leaves
\* lastAlertTime, the pause deadline and the settings as they are, and
\* schedules the next tick one interval later; while monitoring is on the
\* loop is never idle.
C13_ReadFailureKeepsLoop ==
    /\ [](isMonitoring => pc \in {"reading", "scheduled"})
    /\ [][ TickFailed =>
              /\ out'.toWin = <<>> /\ out'.toOverlay = <<>> /\ out'.notifications = <<>>
              /\ trafficInbox' = trafficInbox
              /\ UNCHANGED <<lastAlertTime, pauseAlertsUntil, currentSettings>>
              /\ pc' = "scheduled" /\ monitoringTimeout' = now + TickInterval ]_vars

\* C13 witness: after an alert and during a pause, a tick just failed: the
\* alert state is still there and the next tick is scheduled.
C13_Witness ==
    /\ pc = "scheduled" /\ monitoringTimeout = now + TickInterval
    /\ ~out.ok
    /\ lastAlertTime > 0 /\ lastAlertTime < now
    /\ pauseAlertsUntil > now

\* C16: a tick in progress has no other tick scheduled beside it, a
\* scheduled tick starts only when its timer is due, the next tick is
\* scheduled by the tick that just finished, and startMonitoring called while
\* monitoring is on changes nothing.
C16_SingleTick ==
    /\ [](pc = "reading" => monitoringTimeout = 0)
    /\ [](pc = "scheduled" => monitoringTimeout > 0)
    /\ [][ /\ (pc = "scheduled" /\ pc' = "reading") => now >= monitoringTimeout
           /\ (pc = "reading" /\ pc' = "scheduled") => monitoringTimeout' = now + TickInterval
           /\ (monitoringTimeout' # monitoringTimeout) => pc' # pc
           /\ (isMonitoring /\ StartMonitoring) => UNCHANGED vars ]_vars

\* C16 witness: a later tick is in progress (an alert was raised by an
\* earlier one) and no timer is pending.
C16_Witness ==
    /\ pc = "reading" /\ monitoringTimeout = 0
    /\ lastAlertTime > 0 /\ lastAlertTime < now

\* C35: an entry of the geo cache, a location or a null, is never changed or
\* removed once it is written.
C35_CacheEntriesImmutable ==
    [][ \A ip \in GeoIPs :
          GLOBAL_IP_CACHE[ip] # "none" => GLOBAL_IP_CACHE'[ip] = GLOBAL_IP_CACHE[ip] ]_vars

\* The resolver over lists of public addresses.
NextGeoPublic ==
    \/ AppReady
    \/ Mount
    \/ Unmount
    \/ \E l \in PublicIpLists : SetIps(l)
    \/ ResolveIps
    \/ \E asnDb \in {"absent", "open"} : GetIpLocations(asnDb)
    \/ GetIpLocationsThrows
    \/ InvokeRejects
    \/ ResolveDone

SpecGeoPublic == Init /\ [][NextGeoPublic]_vars

\* C27: while a hook instance is mounted, a location it returns stays in
\* the locations it returns; the completion of another resolve call does not
\* remove it.
C27_LocationsNeverRemoved ==
    [][ (mounted /\ mounted' /\ hookGen' = hookGen) => locations \subseteq locations' ]_vars

\* C26: when the answer of a resolve call has been processed, none of the
\* addresses the call marked stays marked as in flight, an empty answer of
\* the handler included.
C26_AnsweredIpsUnmarked ==
    [][ (ResolveDone /\ IsCurrent(requests[1])) =>
            \A ip \in Range(requests[1].ips) :
                \/ ip \notin pendingRequests'
                \/ \E j \in DOMAIN requests' :
                      requests'[j].gen = hookGen /\ ip \in Range(requests'[j].ips) ]_vars

\* the maximum entry count the cache is to be held to, scaled to the
\* addresses of GeoIPs that can be cached
MaxCacheEntries == 1

CachedIps == { ip \in GeoIPs : GLOBAL_IP_CACHE[ip] # "none" }

\* C23: the geo cache never holds more entries than the configured maximum.
C23_CacheBounded == Cardinality(CachedIps) <= MaxCacheEntries

\* The monitoring loop alone, with the settings and the pause left as they
\* are at startup.
NextSampling ==
    \/ AppReady
    \/ Advance
    \/ TimerFire
    \/ \E networkStats \in NetworkStatsInputs : MonitorTick(networkStats)
    \/ MonitorTickFail

SpecSampling == Init /\ [][NextSampling]_vars

\* the interfaces of a reading that are up or carry traffic
ActiveOf(stats) ==
    { k \in DOMAIN stats :
        stats[k].operstate = "up" \/ stats[k].rx_sec # 0 \/ stats[k].tx_sec # 0 }

RECURSIVE SumRx(_, _)
SumRx(stats, S) ==
    IF S = {} THEN 0
    ELSE LET k == CHOOSE k \in S : TRUE IN stats[k].rx_sec + SumRx(stats, S \ {k})

RECURSIVE SumTx(_, _)
SumTx(stats, S) ==
    IF S = {} THEN 0
    ELSE LET k == CHOOSE k \in S : TRUE IN stats[k].tx_sec + SumTx(stats, S \ {k})

NextPull ==
    \/ AppReady
    \/ Advance
    \/ TimerFire
    \/ \E networkStats \in NetworkStatsInputs : MonitorTick(networkStats)
    \/ MonitorTickFail
    \/ \E networkStats \in NetworkStatsInputs, d \in DefaultInterfaces :
          GetTrafficStats(networkStats, d)
    \/ GetTrafficStatsFails

SpecPull == Init /\ [][NextPull]_vars

\* C22: a get-traffic-stats handled after a tick has pushed its sample
\* answers with the rx, tx and interface name of that sample.
C22_PullReturnsLastSample ==
    [][ \A networkStats \in NetworkStatsInputs, d \in DefaultInterfaces :
          (JustTicked /\ out.toWin # <<>> /\ GetTrafficStats(networkStats, d)) =>
            /\ pullReply'.kind = "stats"
            /\ pullReply'.rx_sec = out.rx_sec
            /\ pullReply'.tx_sec = out.tx_sec
            /\ pullReply'.iface = out.iface ]_vars

----------------------------------------------------------------------------
(* Polling the connection table *)

NextPolling ==
    \/ AppReady
    \/ fetchConnections
    \/ \E i \in 1..MaxPolls, connections \in PolledLists : GetNetworkConnections(i, connections)
    \/ \E i \in 1..MaxPolls : GetNetworkConnectionsFails(i)
    \/ \E i \in 1..MaxPolls : setConnections(i)

SpecPolling == Init /\ [][NextPolling]_vars

\* C25: the answer to a connection read that failed leaves the connection
\* list as it was.
C25_FailedReadKeepsList ==
    [][ \A i \in 1..MaxPolls :
          (setConnections(i) /\ polls[i].failed) => connectionList' = connectionList ]_vars

\* C30: the connection list is never replaced by the answer to a call made
\* before the call whose answer it holds.
C30_NoOlderSnapshot ==
    [][ \A i \in 1..MaxPolls : setConnections(i) => polls[i].id > appliedPoll ]_vars

\* C29: the time of the last alert changes only in a tick that raises an
\* alert, which sets it to the time of that tick; commands, failed ticks and
\* samples that raise nothing leave it as it is, and it never decreases.
C29_LastAlertOnlyOnAlert ==
    [][ /\ lastAlertTime' >= lastAlertTime
        /\ lastAlertTime' # lastAlertTime => (Tick /\ Raised /\ lastAlertTime' = now) ]_vars

\* C29 witness: after an earlier alert, a breaching sample was evaluated
\* while alerts were paused and left the time of the last alert as it was.
C29_Witness ==
    /\ JustTicked
    /\ lastAlertTime > 0 /\ lastAlertTime < now
    /\ isPaused(now, pauseAlertsUntil)
    /\ Breaches(out, currentSettings.threshold)
    /\ out.notifications = <<>>

----------------------------------------------------------------------------
(* Pause state of the UI and of the engine *)

NextTelemetry ==
    \/ AppReady
    \/ Advance
    \/ \E stored \in StoredSettings : RendererStart(stored)
    \/ \E stored \in StoredResumeAts : NetworkDataMount(stored)
    \/ ToggleTelemetry
    \/ CountdownTick
    \/ Render
    \/ DeliverSetPaused

SpecTelemetry == Init /\ [][NextTelemetry]_vars

\* C28 as claimed: when the UI holds a resume timestamp in the future and
\* every set-paused it sent has been handled, the pause deadline of the
\* engine equals that timestamp.
C28_DeadlineEqualsResumeAt ==
    (networkDataMounted /\ pauseOutbox = <<>> /\ telemetryResumeAt > now)
        => pauseAlertsUntil = telemetryResumeAt

\* C28: a set-paused sent while the UI holds a resume timestamp R in the
\* future sets the pause deadline of the engine to R plus the time the
\* message took to be handled, so that with every message handled the
\* deadline is not before R; a UI pause that ends, by expiry or by a manual
\* resume, sends set-paused(0), which clears the deadline; a stored timestamp
\* that is not in the future restores as not paused.
C28_DeadlineFollowsResumeAt ==
    /\ [][ DeliverSetPaused =>
             LET m == Head(pauseOutbox)
             IN  /\ m.resumeAt > m.sentAt =>
                      pauseAlertsUntil' = m.resumeAt + (now - m.sentAt)
                 /\ ~(m.resumeAt > m.sentAt) => pauseAlertsUntil' = 0 ]_vars
    /\ []( (networkDataMounted /\ pauseOutbox = <<>> /\ telemetryResumeAt > now)
              => pauseAlertsUntil >= telemetryResumeAt )
    /\ [][ (networkDataMounted /\ telemetryPaused /\ ~telemetryPaused') =>
             /\ Len(pauseOutbox') = Len(pauseOutbox) + 1
             /\ pauseOutbox'[Len(pauseOutbox')].durationMs = 0 ]_vars
    /\ [][ \A stored \in StoredResumeAts :
             (NetworkDataMount(stored) /\ stored <= now) =>
                (telemetryResumeAt' = 0 /\ ~telemetryPaused') ]_vars

\* C28 witness: the UI is paused, its set-paused was handled at a later
\* instant than it was sent, and the engine is paused until after the
\* resume timestamp of the UI.
C28_Witness ==
    /\ networkDataMounted /\ pauseOutbox = <<>>
    /\ telemetryResumeAt > now
    /\ pauseAlertsUntil > telemetryResumeAt

----------------------------------------------------------------------------
(* Rolling history of the subscriber: src/hooks/useNetworkData.ts *)

\* The loop, the subscriber and the hook that keeps the history.
\* useNetworkData calls useTrafficStats, so the listener is registered in the
\* commit that mounts the hook.
NextHistory ==
    \/ AppReady
    \/ Advance
    \/ TimerFire
    \/ \E networkStats \in {s \in NetworkStatsInputs : Len(s) = 0} : MonitorTick(networkStats)
    \/ MonitorTickFail
    \/ \E stored \in {s \in StoredSettings : ~s.present} : RendererStart(stored)
    \/ \E stored \in StoredResumeAts : NetworkDataMount(stored)
    \/ networkDataMounted /\ TrafficListen
    \/ HandleUpdate
    \/ ToggleTelemetry
    \/ CountdownTick
    \/ Render
    \/ DeliverSetPaused

SpecHistory == Init /\ [][NextHistory]_vars

\* C36: the history never holds more than the limit, and it changes only when
\* a sample is received, to the most recent samples in arrival order: the
\* received sample is appended and the oldest point dropped beyond the limit.
C36_HistoryIsRecentSamples ==
    /\ [](Len(history) <= HistoryLimit)
    /\ [][ history' # history =>
              /\ trafficInbox # <<>>
              /\ lastReceived' = Head(trafficInbox)
              /\ LET received == Append(history, Head(trafficInbox))
                 IN  history' = IF Len(received) > HistoryLimit
                                THEN SubSeq(received, Len(received) - HistoryLimit + 1,
                                            Len(received))
                                ELSE received ]_vars

----------------------------------------------------------------------------
(* Process termination *)

NextKill ==
    \/ AppReady
    \/ \E pid \in Pids : KillProcess(pid)
    \/ \E pid \in Pids : KillProcessSecure(pid)
    \/ \E k \in killPending, err \in BOOLEAN : KillCallback(k, err)

SpecKill == Init /\ [][NextKill]_vars

\* C4 as claimed: a request through the exposed killProcess API (channel
\* 'kill-process') with a pid below the floor of 1000 is answered false and
\* never reaches the OS kill primitive; one with a pid at or above the floor
\* reaches it.
C4_KillFloorOnApi ==
    /\ \A i \in 1..Len(osKills) :
          osKills[i].channel = "kill-process" => osKills[i].pid >= KillFloor
    /\ (killReply.set /\ killReply.channel = "kill-process" /\ killReply.pid < KillFloor)
          => ~killReply.result
    /\ \A k \in killPending : k.channel = "kill-process" => k.pid >= KillFloor

\* C17 as claimed: a request through the exposed killProcess API is answered
\* false when the pid is 0, -1 or below the floor and when the OS kill
\* fails; the callback of a kill never calls the OS kill primitive again.
C17_KillFailuresAreFalse ==
    /\ []((killReply.set /\ killReply.channel = "kill-process"
              /\ (killReply.pid \in {0, -1} \/ killReply.pid < KillFloor))
            => ~killReply.result)
    /\ [][ /\ Len(osKills') <= Len(osKills) + 1
           /\ \A k \in killPending :
                 KillCallback(k, TRUE) => (osKills' = osKills /\ ~killReply'.result)
           /\ \A k \in killPending :
                 KillCallback(k, FALSE) => osKills' = osKills ]_vars

----------------------------------------------------------------------------
(* Geo resolver *)

NextGeo ==
    \/ AppReady
    \/ Mount
    \/ Unmount
    \/ \E l \in IpLists : SetIps(l)
    \/ ResolveIps
    \/ GetIpLocations("open")
    \/ GetIpLocationsThrows
    \/ InvokeRejects
    \/ ResolveDone

SpecGeo == Init /\ [][NextGeo]_vars

\* C7 as claimed: over requests that complete successfully, each address is
\* submitted for an underlying lookup at most once, whether its result was a
\* location or null and however often it is asked for.
C7_LookupAtMostOnce ==
    \A ip \in GeoIPs : ip \notin failedIps => lookups[ip] <= 1

\* C8 as claimed: no address is contained in two unanswered lookup batches.
C8_NoDuplicateInFlight ==
    \A i, j \in DOMAIN requests :
        i # j => Range(requests[i].ips) \cap Range(requests[j].ips) = {}

\* the loopback and private ranges: 127.0.0.1, ::1, 10.0.0.0/8,
\* 172.16.0.0/12, 192.168.0.0/16
InPrivateRange(ip) ==
    \/ ip = <<127, 0, 0, 1>>
    \/ ip = Ipv6Loopback
    \/ /\ Len(ip) = 4
       /\ \/ ip[1] = 10
          \/ (ip[1] = 172 /\ ip[2] \in 16..31)
          \/ (ip[1] = 192 /\ ip[2] = 168)

\* C18: no loopback or private address is in a lookup batch, marked as
\* pending or held as a key of the geo cache.
C18_PrivateNeverResolved ==
    /\ \A i \in DOMAIN requests :
          \A ip \in Range(requests[i].ips) : ~InPrivateRange(ip)
    /\ \A ip \in pendingRequests : ~InPrivateRange(ip)
    /\ \A ip \in GeoIPs : GLOBAL_IP_CACHE[ip] # "none" => ~InPrivateRange(ip)

\* C18 witness: the hook was given a list with a private address and a
\* public one twice; the batch in flight holds the public one alone, and an
\* earlier answer is cached.
C18_Witness ==
    /\ ips = << <<203, 0, 113, 7>>, <<203, 0, 113, 7>>, <<192, 168, 1, 10>> >>
    /\ Len(requests) = 1
    /\ requests[1].ips = << <<203, 0, 113, 7>> >>
    /\ GLOBAL_IP_CACHE[<<8, 8, 8, 8>>] = "loc"

\* C31: an address of the input outside the loopback and private ranges,
\* neither cached nor in flight, is in the batch the resolve call sends.
C31_PublicAddressesRequested ==
    [][ ResolveIps =>
          \A ip \in Range(ips) :
              (~InPrivateRange(ip) /\ GLOBAL_IP_CACHE[ip] = "none"
                                   /\ ip \notin pendingRequests)
                  => ip \in Range(requests'[Len(requests')].ips) ]_vars

NextLookup ==
    \/ AppReady
    \/ \E ipList \in IpLists \cup PublicIpLists, asnDb \in AsnDbStates,
          outcomes \in [1..MaxBatch -> AsnOutcomes] :
          GetIpLocationsResults(ipList, asnDb, outcomes)

SpecLookup == Init /\ [][NextLookup]_vars

\* C32: the result for an address is null exactly when geoip.lookup finds
\* nothing; a location is returned whatever the state of the ASN database,
\* with the ISP field set to the unavailable marker when the database is
\* absent and to 'Unknown ISP' when the ASN lookup fails.
C32_AsnDegradesGracefully ==
    \A k \in DOMAIN locationsReply.results :
        LET r == locationsReply.results[k]
        IN  /\ r.isNull <=> (locationsReply.ips[k] \notin Registered)
            /\ (~r.isNull /\ locationsReply.asnDb = "absent")
                  => r.isp = "ISP Info Unavailable (No DB)"
            /\ (~r.isNull /\ locationsReply.asnDb = "open" /\ locationsReply.asn[k] = "throws")
                  => r.isp = "Unknown ISP"

\* C32 witness: a batch answered without the ASN database holds a location
\* with the unavailable marker and a null.
C32_Witness ==
    /\ locationsReply.asnDb = "absent"
    /\ \E k \in DOMAIN locationsReply.results :
          /\ ~locationsReply.results[k].isNull
          /\ locationsReply.results[k].isp = "ISP Info Unavailable (No DB)"
    /\ \E k \in DOMAIN locationsReply.results : locationsReply.results[k].isNull

----------------------------------------------------------------------------
(* Settings UI with the alert engine *)

NextSettings ==
    \/ AppReady
    \/ Advance
    \/ TimerFire
    \/ \E networkStats \in NetworkStatsInputs : MonitorTick(networkStats)
    \/ MonitorTickFail
    \/ \E stored \in StoredSettings : RendererStart(stored)
    \/ OpenModal
    \/ CloseModal
    \/ \E field \in DOMAIN DraftVals : \E value \in DraftVals[field] : UpdateDraft(field, value)
    \/ SaveSettings

SpecSettings == Init /\ [][NextSettings]_vars

\* C24: the settings held by the settings store always have a positive
\* threshold, a cooldown of at least 1 and a pause duration of at least 1.
C24_StoreInvariants ==
    rendererStarted =>
        /\ uiSettings.threshold > 0
        /\ uiSettings.cooldownMinutes >= 1
        /\ uiSettings.pauseMinutes >= 1

\* C6 as claimed: once the settings UI has saved, every sample is evaluated
\* against the saved threshold and cooldown.
C6_EngineAppliesSaved ==
    [][(Tick /\ saved) =>
          /\ currentSettings.threshold = uiSettings.threshold
          /\ currentSettings.cooldownMinutes = uiSettings.cooldownMinutes]_vars

----------------------------------------------------------------------------
(* Windows and the traffic subscriber with the monitor loop *)

NextWindows ==
    \/ AppReady
    \/ Advance
    \/ TimerFire
    \/ \E networkStats \in NetworkStatsInputs : MonitorTick(networkStats)
    \/ MonitorTickFail
    \/ CloseWindow
    \/ ToggleOverlay
    \/ Activate
    \/ TrafficListen
    \/ HandleUpdate

SpecWindows == Init /\ [][NextWindows]_vars

\* C14 as claimed: a tick raises an alert exactly when it emits one
\* alert-triggered event, and never emits more than one.
C14_OneEventPerAlert ==
    [][ Tick => Count(out'.toWin \o out'.toOverlay, "alert-triggered")
                   = (IF Raised THEN 1 ELSE 0) ]_vars

\* C14 amended: an alert raised while the main window is alive is accompanied
\* by exactly one alert-triggered event, sent to the main window; an alert
\* raised while the main window is destroyed is accompanied by none; no
\* event is emitted without an alert.
C14_OneEventPerAlertWhileWindowAlive ==
    [][ Tick =>
          /\ Count(out'.toWin, "alert-triggered") = (IF Raised /\ winAlive THEN 1 ELSE 0)
          /\ Count(out'.toOverlay, "alert-triggered") = 0 ]_vars

\* C14 witness: an alert was just raised with the main window destroyed and
\* no alert-triggered event was sent.
C14_Witness ==
    /\ JustTicked
    /\ win = "destroyed"
    /\ out.notifications # <<>> /\ lastAlertTime = now
    /\ Count(out.toWin \o out.toOverlay, "alert-triggered") = 0

\* C15: a successful tick sends exactly one traffic-update to each live
\* window and none to a window that is gone; the samples waiting at the
\* subscriber are in the order of their ticks and all later than the one it
\* handled last.
C15_OneSamplePerTickInOrder ==
    /\ [](\A i, j \in DOMAIN trafficInbox : i < j => trafficInbox[i] < trafficInbox[j])
    /\ [](trafficInbox # <<>> => lastReceived < Head(trafficInbox))
    /\ [][ Tick =>
              /\ out'.toWin = (IF winAlive THEN <<"traffic-update">> ELSE <<>>)
                                 \o (IF Raised /\ winAlive THEN <<"alert-triggered">> ELSE <<>>)
              /\ out'.toOverlay = (IF overlayWin THEN <<"traffic-update">> ELSE <<>>)
              /\ trafficInbox' = IF winAlive /\ listening THEN Append(trafficInbox, now)
                                 ELSE trafficInbox ]_vars

\* C15 witness: the subscriber handled one sample and two later ones wait in
\* order, the last just sent to both windows.
C15_Witness ==
    /\ JustTicked
    /\ overlayWin /\ winAlive
    /\ out.toOverlay = <<"traffic-update">>
    /\ lastReceived > 0
    /\ Len(trafficInbox) = 2
    /\ trafficInbox[2] = now

----------------------------------------------------------------------------
(* Process usage *)

NextUsage ==
    \/ AppReady
    \/ \E data \in ConnectionLists : ConnectionsPolled(data)

SpecUsage == Init /\ [][NextUsage]_vars

\* the process ids of a snapshot and the connections of each
PidsOf(list) == { pidOf(list[i]) : i \in DOMAIN list }
ConnectionsOf(list, pid) == Cardinality({ i \in DOMAIN list : pidOf(list[i]) = pid })
FirstOf(list, pid) == CHOOSE i \in DOMAIN list :
                          pidOf(list[i]) = pid /\ \A j \in 1..(i - 1) : pidOf(list[j]) # pid

\* C19 as claimed: for a non-empty snapshot the connection counts of the
\* returned rows sum to the number of connections (the ratios sum to 1).
C19_RatiosSumToOne ==
    connectionList # <<>> => sumConnections(processUsage, 1) = Len(connectionList)

\* C19 amended: the counts of all groups sum to the number of connections;
\* the returned rows carry each group's count over the snapshot's total, so
\* their ratios sum to 1 exactly when the snapshot has at most 8 processes
\* and to less than 1 when it has more.
C19_RatiosSumToOneUpTo8 ==
    /\ sumConnections(aggregate(connectionList, 1, <<>>), 1) = Len(connectionList)
    /\ \A i \in DOMAIN processUsage :
          /\ processUsage[i].activityScore.num
                = ConnectionsOf(connectionList, processUsage[i].pid)
          /\ processUsage[i].activityScore.num = processUsage[i].connections
          /\ processUsage[i].activityScore.den = Len(connectionList)
    /\ \A i, j \in DOMAIN processUsage :
          i # j => processUsage[i].pid # processUsage[j].pid
    /\ Cardinality(PidsOf(connectionList)) <= MaxRows
          => sumConnections(processUsage, 1) = Len(connectionList)
    /\ Cardinality(PidsOf(connectionList)) > MaxRows
          => sumConnections(processUsage, 1) < Len(connectionList)

\* C19 witness: a snapshot of more than 8 processes, one of them with three
\* connections: the 8 rows returned do not cover all connections.
C19_Witness ==
    /\ Cardinality(PidsOf(connectionList)) > MaxRows
    /\ Len(processUsage) = MaxRows
    /\ processUsage[1].connections = 3
    /\ sumConnections(processUsage, 1) < Len(connectionList)

\* C20: the rows are min(8, number of process ids) groups of the snapshot,
\* in non-increasing order of count, equal counts in the order in which their
\* process ids first appear; no omitted group has more connections than a
\* returned row.
C20_Top8StableOrder ==
    LET pids == PidsOf(connectionList)
        rowPids == { processUsage[i].pid : i \in DOMAIN processUsage }
    IN  /\ Len(processUsage) = (IF Cardinality(pids) < 8 THEN Cardinality(pids) ELSE 8)
        /\ rowPids \subseteq pids
        /\ Cardinality(rowPids) = Len(processUsage)
        /\ \A i \in DOMAIN processUsage :
              processUsage[i].connections = ConnectionsOf(connectionList, processUsage[i].pid)
        /\ \A i, j \in DOMAIN processUsage :
              i < j =>
                /\ processUsage[i].connections >= processUsage[j].connections
                /\ processUsage[i].connections = processUsage[j].connections
                      => FirstOf(connectionList, processUsage[i].pid)
                            < FirstOf(connectionList, processUsage[j].pid)
        /\ \A p \in pids \ rowPids : \A i \in DOMAIN processUsage :
              ConnectionsOf(connectionList, p) <= processUsage[i].connections

\* C20 witness: nine processes, the fifth and the ninth with two connections:
\* eight rows, the fifth first, then the ninth, then the others in order of
\* appearance, the eighth process omitted.
C20_Witness ==
    /\ Cardinality(PidsOf(connectionList)) = 9
    /\ Len(processUsage) = 8
    /\ processUsage[1].pid = 5 /\ processUsage[1].connections = 2
    /\ processUsage[2].pid = 9 /\ processUsage[2].connections = 2
    /\ processUsage[3].pid = 1
    /\ processUsage[8].pid = 7

\* C33: every connection without a numeric pid is counted in the row of the
\* sentinel id -1, and that row is named "System".
C33_UnownedGroupedAsSystem ==
    (\E k \in DOMAIN connectionList : ~connectionList[k].pidIsNumber) =>
        /\ \E i \in DOMAIN processUsage : processUsage[i].pid = -1
        /\ \A i \in DOMAIN processUsage :
              processUsage[i].pid = -1 =>
                 /\ processUsage[i].connections >=
                       Cardinality({ k \in DOMAIN connectionList :
                                        ~connectionList[k].pidIsNumber })
                 /\ processUsage[i].name = "System"

\* the protocol names of the snapshots that begin with tcp, respectively
\* udp, ignoring case
TcpNames == {"tcp", "TCP", "tcp6"}
UdpNames == {"udp", "UDP", "udp6"}

\* C34: in each row tcp and udp count the connections of the row's process
\* whose protocol begins with tcp, respectively udp, ignoring case; a
\* connection with another or no protocol is counted in connections only.
C34_ProtocolCounts ==
    \A i \in DOMAIN processUsage :
        LET mine == { k \in DOMAIN connectionList :
                         pidOf(connectionList[k]) = processUsage[i].pid }
        IN  /\ processUsage[i].connections = Cardinality(mine)
            /\ processUsage[i].tcp =
                  Cardinality({ k \in mine : connectionList[k].protocol \in TcpNames })
            /\ processUsage[i].udp =
                  Cardinality({ k \in mine : connectionList[k].protocol \in UdpNames })
            /\ processUsage[i].tcp + processUsage[i].udp <= processUsage[i].connections

\* C34 witness: a process with an upper-case TCP connection and one of
\* another protocol: two connections, one of them counted as tcp, none as udp.
C34_Witness ==
    \E i \in DOMAIN processUsage :
        /\ processUsage[i].connections = 2
        /\ processUsage[i].tcp = 1
        /\ processUsage[i].udp = 0
        /\ \E k \in DOMAIN connectionList : connectionList[k].protocol = "TCP"

====
